---- MODULE Spec2Model ----
(***************************************************************************)
(* State-synchronisation layer of the role matching client:                *)
(*   - AppProvider (context/AppContext.jsx): the Shared State Store, its   *)
(*     bootstrap (fetchInitialData), the refresh / approve / update        *)
(*     coordinator operations and the generateOffers workflow trigger;     *)
(*   - services/api.js: the axios response interceptor and the role /      *)
(*     offer services;                                                     *)
(*   - pages/RoleManagement.jsx: handleSubmit and handleDeleteRole;        *)
(*   - pages/OfferRecommendation.jsx: the patch handleSaveEdit builds;     *)
(*   - App.jsx: the screen AppContent selects.                             *)
(* The backend is not part of the client sources; it is modelled from the  *)
(* HTTP contract of the specification (the Srv* definitions).              *)
(*                                                                         *)
(* React closures: every coordinator function is re-created on each        *)
(* render, so a call reads the Store as it is when the call is made, and   *)
(* the continuation after an await (or a setTimeout callback) still reads  *)
(* that same captured value.  A task in flight therefore carries the       *)
(* collections its closure captured (snapC, snapR, snapO).                 *)
(***************************************************************************)
EXTENDS Integers, Sequences, FiniteSets, TLC

VARIABLES
    candidates, roles, matches, offers,   \* useState collections of AppProvider
    loading, error, useFallbackData,      \* useState flags of AppProvider
    nullCols,        \* names of the collections whose Store value is null
    pc,              \* position of fetchInitialData
    fetched,         \* candidatesData, rolesData, matchesData, offersData, how each fetch ended
                     \* and the error it was rejected with
    srvCandidates, srvRoles, srvMatches, srvOffers,   \* the backend's collections
    srvJobs,         \* accepted offer-generation jobs the backend has not finished
    pending,         \* requests in flight and timers set, with what their closures captured
    nops,            \* number of operations started by consumers of the context
    gw,              \* the error the response interceptor last handled
    page,            \* the page the router shows, with the page's own useState values
    last             \* the step taken last, and whether it threw

vars == <<candidates, roles, matches, offers, loading, error, useFallbackData,
          nullCols, pc, fetched, srvCandidates, srvRoles, srvMatches, srvOffers,
          srvJobs, pending, nops, gw, page, last>>

storeVars == <<candidates, roles, matches, offers, loading, error, useFallbackData, nullCols>>
bootVars == <<pc, fetched>>
srvVars == <<srvCandidates, srvRoles, srvMatches, srvOffers, srvJobs>>

(***************************************************************************)
(* Bounds of the model.                                                    *)
(***************************************************************************)
MaxOps == 2          \* operations a run starts after bootstrap

Null == "<null>"     \* JavaScript null in the error slot

Names == <<"candidates", "roles", "matches", "offers">>
NameSet == {"candidates", "roles", "matches", "offers"}

(***************************************************************************)
(* JavaScript values of the numeric offer fields: a number, NaN, or the    *)
(* text of an <input type="number">.                                       *)
(***************************************************************************)
JsNum(n) == [t |-> "number", n |-> n, s |-> ""]
JsStr(s) == [t |-> "string", n |-> 0, s |-> s]
JsNaN == [t |-> "NaN", n |-> 0, s |-> ""]

Digits == <<"0", "1", "2", "3", "4", "5", "6", "7", "8", "9">>
IsDigit(c) == \E i \in 1..10 : Digits[i] = c
DigitVal(c) == (CHOOSE i \in 1..10 : Digits[i] = c) - 1

\* number of leading decimal digits of s from position i on
RECURSIVE DigitRun(_, _)
DigitRun(s, i) ==
    IF i > Len(s) \/ ~IsDigit(SubSeq(s, i, i)) THEN 0 ELSE 1 + DigitRun(s, i + 1)

\* value of the digit string s[1..k]
RECURSIVE DigitsValue(_, _)
DigitsValue(s, k) ==
    IF k = 0 THEN 0 ELSE 10 * DigitsValue(s, k - 1) + DigitVal(SubSeq(s, k, k))

\* parseInt(v): the leading run of digits of a string, NaN when there is none
parseInt(v) ==
    IF v.t = "number" THEN v
    ELSE IF v.t = "NaN" THEN JsNaN
    ELSE LET k == DigitRun(v.s, 1)
         IN IF k = 0 THEN JsNaN ELSE JsNum(DigitsValue(v.s, k))

\* v || 0
OrZero(v) ==
    IF v.t = "NaN" \/ (v.t = "number" /\ v.n = 0) \/ (v.t = "string" /\ v.s = "")
    THEN JsNum(0) ELSE v

\* a + b on two numbers
JsAdd(a, b) == IF a.t = "NaN" \/ b.t = "NaN" THEN JsNaN ELSE JsNum(a.n + b.n)

(***************************************************************************)
(* Fallback dataset.                                                       *)
(***************************************************************************)
mockData ==
    [candidates |-> << [_id |-> "mock1", name |-> "Alex Johnson"],
                       [_id |-> "mock2", name |-> "Maria Garcia"] >>,
     roles |-> << [_id |-> "mock1", title |-> "Frontend Developer", is_active |-> TRUE],
                  [_id |-> "mock2", title |-> "Data Scientist", is_active |-> TRUE] >>,
     matches |-> << [_id |-> "mock1", candidate_id |-> "mock1", role_id |-> "mock1",
                     match_score |-> 85, status |-> "Matched"],
                    [_id |-> "mock2", candidate_id |-> "mock2", role_id |-> "mock2",
                     match_score |-> 92, status |-> "Matched"] >>,
     offers |-> << [_id |-> "mock1", candidate_id |-> "mock1", role_id |-> "mock1",
                    match_score |-> 85, status |-> "Pending Approval",
                    offer |-> [base_salary |-> JsNum(100000), bonus |-> JsNum(10000),
                               total_ctc |-> JsNum(110000)]] >>]

(***************************************************************************)
(* Service gateway: the axios response interceptor.  A transport error is  *)
(* [response, status, detail, request, code]; detail is Null when the body *)
(* (or its detail) is missing.                                             *)
(***************************************************************************)
HttpError(status, detail) ==
    [response |-> TRUE, status |-> status, detail |-> detail, request |-> TRUE, code |-> "ERR_BAD_RESPONSE"]
NoResponse(code) ==
    [response |-> FALSE, status |-> 0, detail |-> Null, request |-> TRUE, code |-> code]
NoRequest ==
    [response |-> FALSE, status |-> 0, detail |-> Null, request |-> FALSE, code |-> "NONE"]

\* a || b on strings, a possibly null
OrText(a, b) == IF a = Null \/ a = "" THEN b ELSE a

\* Interceptor without its case 404: the status falls through to default
Interceptor_No404(e) ==
    IF e.response
    THEN LET detail == OrText(e.detail, "")
         IN CASE e.status = 400 -> "Bad Request: " \o detail
              [] e.status = 401 -> "Unauthorized: Please log in again"
              [] e.status = 403 -> "Forbidden: You do not have permission"
              [] e.status = 500 -> "Server Error: " \o OrText(detail, "Internal server error")
              [] OTHER -> "Error " \o ToString(e.status) \o ": " \o OrText(detail, "Something went wrong")
    ELSE IF e.request
    THEN IF e.code = "ECONNABORTED" THEN "Request timed out. Please try again."
         ELSE IF e.code = "ERR_NETWORK"
         THEN "Network error. Please check if the backend server is running on http://localhost:8000"
         ELSE "Network error. Please check your connection."
    ELSE "An unexpected error occurred"

\* Interceptor without the test of ECONNABORTED
Interceptor_NoTimeout(e) ==
    IF e.response
    THEN LET detail == OrText(e.detail, "")
         IN CASE e.status = 400 -> "Bad Request: " \o detail
              [] e.status = 401 -> "Unauthorized: Please log in again"
              [] e.status = 403 -> "Forbidden: You do not have permission"
              [] e.status = 404 -> "Not Found: " \o OrText(detail, "The requested resource was not found")
              [] e.status = 500 -> "Server Error: " \o OrText(detail, "Internal server error")
              [] OTHER -> "Error " \o ToString(e.status) \o ": " \o OrText(detail, "Something went wrong")
    ELSE IF e.request
    THEN IF e.code = "ERR_NETWORK"
         THEN "Network error. Please check if the backend server is running on http://localhost:8000"
         ELSE "Network error. Please check your connection."
    ELSE "An unexpected error occurred"

\* errorMessage of the rejected-response handler
Interceptor(e) ==
    IF e.response
    THEN LET detail == OrText(e.detail, "")
         IN CASE e.status = 400 -> "Bad Request: " \o detail
              [] e.status = 401 -> "Unauthorized: Please log in again"
              [] e.status = 403 -> "Forbidden: You do not have permission"
              [] e.status = 404 -> "Not Found: " \o OrText(detail, "The requested resource was not found")
              [] e.status = 500 -> "Server Error: " \o OrText(detail, "Internal server error")
              [] OTHER -> "Error " \o ToString(e.status) \o ": " \o OrText(detail, "Something went wrong")
    ELSE IF e.request
    THEN IF e.code = "ECONNABORTED" THEN "Request timed out. Please try again."
         ELSE IF e.code = "ERR_NETWORK"
         THEN "Network error. Please check if the backend server is running on http://localhost:8000"
         ELSE "Network error. Please check your connection."
    ELSE "An unexpected error occurred"

\* the error the services re-throw: the transport error with userMessage attached
Rejected(e) == [err |-> e, userMessage |-> Interceptor(e)]

(***************************************************************************)
(* Backend, from the HTTP contract: GET /<collection>/ lists a collection; *)
(* getRoles() sends active_only = true, so only active roles are listed.   *)
(***************************************************************************)
SeedCandidates == << [_id |-> "c1", name |-> "Ann"] >>
SeedRoles == << [_id |-> "r1", title |-> "Engineer", is_active |-> TRUE],
                [_id |-> "r2", title |-> "Analyst", is_active |-> TRUE] >>
SeedMatches == << [_id |-> "m1", candidate_id |-> "c1", role_id |-> "r1",
                   match_score |-> 80, status |-> "Matched"] >>
SeedOffer(id, role) ==
    [_id |-> id, candidate_id |-> "c1", role_id |-> role, match_score |-> 80,
     status |-> "Pending Approval",
     offer |-> [base_salary |-> JsNum(50), bonus |-> JsNum(5), total_ctc |-> JsNum(55)]]
\* one offer awaiting approval and one approved earlier
SeedOffers == << SeedOffer("o1", "r1"),
                [SeedOffer("o2", "r2") EXCEPT !.status = "Approved"] >>

IsActive(r) == r.is_active

SrvList(name) ==
    CASE name = "candidates" -> srvCandidates
      [] name = "roles" -> SelectSeq(srvRoles, IsActive)
      [] name = "matches" -> srvMatches
      [] name = "offers" -> srvOffers

(***************************************************************************)
(* Bootstrap: fetchInitialData.  The four list() calls are awaited one     *)
(* after the other, each in its own try/catch; the step that settles the   *)
(* offers fetch runs the rest of the function (hasData, the two branches,  *)
(* the outer catch and finally).                                           *)
(***************************************************************************)
DemoModeMessage == "Unable to connect to the backend. Using demo mode with sample data."
LoadFailedMessage == "Failed to load application data. Please refresh the page."

\* last is reset by the steps that neither write the Store nor throw
NoLast == [op |-> "none", id |-> "", threw |-> FALSE, read |-> <<>>, data |-> <<>>]
Did(op, id, threw, read) == [op |-> op, id |-> id, threw |-> threw, read |-> read, data |-> <<>>]
\* an updateOffer step, with the offerData it was called with
DidUpdate(id, read, offerData) ==
    [op |-> "updated", id |-> id, threw |-> FALSE, read |-> read, data |-> <<offerData>>]
\* a refresh function re-throws; from is the call that had begun the task
DidThrow(op, id, from) ==
    [op |-> op, id |-> id, threw |-> TRUE, read |-> <<>>, data |-> <<from>>]
\* an approveOffer step, with the body the approve call returned
DidApprove(id, read, body) ==
    [op |-> "approved", id |-> id, threw |-> FALSE, read |-> read, data |-> body]

NotStarted == [kind |-> "pending", data |-> <<>>, err |-> NoRequest]

NextFetch(name) ==
    CASE name = "candidates" -> "roles"
      [] name = "roles" -> "matches"
      [] name = "matches" -> "offers"
      [] name = "offers" -> "done"

\* hasData with && in place of ||: every collection must be non-empty
RECURSIVE hasData_AllNonEmpty(_, _)
hasData_AllNonEmpty(f, i) ==
    IF i > 4 THEN "true"
    ELSE IF f[Names[i]].kind = "null" THEN "throws"
    ELSE IF Len(f[Names[i]].data) = 0 THEN "false"
    ELSE hasData_AllNonEmpty(f, i + 1)

\* candidatesData.length > 0 || rolesData.length > 0 || ... : evaluated left to
\* right, stopping at the first true; reading .length of null throws
RECURSIVE hasData(_, _)
hasData(f, i) ==
    IF i > 4 THEN "false"
    ELSE IF f[Names[i]].kind = "null" THEN "throws"
    ELSE IF Len(f[Names[i]].data) > 0 THEN "true"
    ELSE hasData(f, i + 1)

\* setError(prev => prev || err.userMessage), guarded by if (err.userMessage)
CaptureError(prev, o) ==
    IF o.kind = "failed" /\ Rejected(o.err).userMessage # ""
    THEN (IF prev # Null /\ prev # "" THEN prev ELSE Rejected(o.err).userMessage)
    ELSE prev

\* the if (!error) of the fallback branch reads the error of the render the
\* effect was created in, which is the initial useState(null)
EffectClosureError == Null

\* BootResult whose fallback branch lacks setOffers(mockData.offers)
BootResult_OffersNotSubstituted(f, err) ==
    LET h == hasData(f, 1)
    IN IF h = "throws"
       THEN [cols |-> mockData, fallback |-> TRUE, error |-> LoadFailedMessage, nulls |-> {}]
       ELSE IF h = "false"
       THEN [cols |-> [mockData EXCEPT !.offers = f["offers"].data], fallback |-> TRUE,
             error |-> IF EffectClosureError = Null THEN DemoModeMessage ELSE err,
             nulls |-> {}]
       ELSE [cols |-> [n \in NameSet |-> f[n].data], fallback |-> FALSE, error |-> err,
             nulls |-> {n \in NameSet : f[n].kind = "null"}]

\* BootResult whose outer catch lacks setUseFallbackData(true)
BootResult_CatchStaysLive(f, err) ==
    LET h == hasData(f, 1)
    IN IF h = "throws"
       THEN [cols |-> mockData, fallback |-> FALSE, error |-> LoadFailedMessage, nulls |-> {}]
       ELSE IF h = "false"
       THEN [cols |-> mockData, fallback |-> TRUE,
             error |-> IF EffectClosureError = Null THEN DemoModeMessage ELSE err,
             nulls |-> {}]
       ELSE [cols |-> [n \in NameSet |-> f[n].data], fallback |-> FALSE, error |-> err,
             nulls |-> {n \in NameSet : f[n].kind = "null"}]

\* what the Store holds once the offers fetch has settled with local data f
BootResult(f, err) ==
    LET h == hasData(f, 1)
    IN IF h = "throws"
       THEN [cols |-> mockData, fallback |-> TRUE, error |-> LoadFailedMessage, nulls |-> {}]
       ELSE IF h = "false"
       THEN [cols |-> mockData, fallback |-> TRUE,
             error |-> IF EffectClosureError = Null THEN DemoModeMessage ELSE err,
             nulls |-> {}]
       ELSE [cols |-> [n \in NameSet |-> f[n].data], fallback |-> FALSE, error |-> err,
             nulls |-> {n \in NameSet : f[n].kind = "null"}]

\* fetchInitialData without its finally: loading is never cleared
fetchInitialData_NoFinally(name, o) ==
    /\ loading
    /\ pc = name
    /\ LET data == IF o.kind = "ok" THEN SrvList(name) ELSE <<>>
           f == [fetched EXCEPT ![name] = [kind |-> o.kind, data |-> data, err |-> o.err]]
           e == CaptureError(error, o)
           r == BootResult(f, e)
       IN /\ fetched' = f
          /\ pc' = NextFetch(name)
          /\ IF name # "offers"
             THEN /\ error' = e
                  /\ UNCHANGED <<candidates, roles, matches, offers, loading,
                                 useFallbackData, nullCols>>
             ELSE /\ candidates' = r.cols.candidates
                  /\ roles' = r.cols.roles
                  /\ matches' = r.cols.matches
                  /\ offers' = r.cols.offers
                  /\ useFallbackData' = r.fallback
                  /\ error' = r.error
                  /\ nullCols' = r.nulls
                  /\ UNCHANGED loading
    /\ last' = Did("fetch", name, FALSE, <<>>)
    /\ UNCHANGED <<srvVars, pending, nops, gw, page>>

fetchInitialData(name, o) ==
    /\ loading
    /\ pc = name
    /\ LET data == IF o.kind = "ok" THEN SrvList(name) ELSE <<>>
           f == [fetched EXCEPT ![name] = [kind |-> o.kind, data |-> data, err |-> o.err]]
           e == CaptureError(error, o)
           r == BootResult(f, e)
       IN /\ fetched' = f
          /\ pc' = NextFetch(name)
          /\ IF name # "offers"
             THEN /\ error' = e
                  /\ UNCHANGED <<candidates, roles, matches, offers, loading,
                                 useFallbackData, nullCols>>
             ELSE /\ candidates' = r.cols.candidates
                  /\ roles' = r.cols.roles
                  /\ matches' = r.cols.matches
                  /\ offers' = r.cols.offers
                  /\ useFallbackData' = r.fallback
                  /\ error' = r.error
                  /\ nullCols' = r.nulls
                  /\ loading' = FALSE
    /\ last' = Did("fetch", name, FALSE, <<>>)
    /\ UNCHANGED <<srvVars, pending, nops, gw, page>>

\* App.jsx, AppContent: the screen rendered for the Store's loading and error
Screen ==
    IF loading THEN "LoadingScreen"
    ELSE IF error # Null /\ error # "" THEN "ErrorScreen"
    ELSE "Router"

(***************************************************************************)
(* Initial states: the first render of AppProvider, before the effect.     *)
(***************************************************************************)
\* no page is mounted; offers, matches, roles, loading, generating, processing
\* and notification are the useState values a page starts with
NoPage ==
    [at |-> "none", offers |-> <<>>, matches |-> <<>>, roles |-> <<>>, loading |-> TRUE,
     generating |-> FALSE, processing |-> FALSE, notification |-> "info"]

InitClient ==
    /\ candidates = <<>> /\ roles = <<>> /\ matches = <<>> /\ offers = <<>>
    /\ loading = TRUE /\ error = Null /\ useFallbackData = FALSE
    /\ nullCols = {}
    /\ pc = "candidates"
    /\ fetched = [n \in NameSet |-> NotStarted]
    /\ pending = <<>> /\ nops = 0
    /\ gw = [err |-> NoRequest, userMessage |-> Null]
    /\ page = NoPage
    /\ last = NoLast

Init ==
    /\ InitClient
    /\ srvCandidates = SeedCandidates /\ srvRoles = SeedRoles
    /\ srvMatches = SeedMatches /\ srvOffers = SeedOffers
    /\ srvJobs = 0

(***************************************************************************)
(* SpecBoot: bootstrap alone, over every combination of backend contents   *)
(* (empty or seeded) and fetch outcomes (a list, a failure, or a body that *)
(* is null).                                                               *)
(***************************************************************************)
BootErrors == {NoResponse("ERR_NETWORK"), HttpError(500, Null)}
BootOutcomes ==
    {[kind |-> "ok", err |-> NoRequest], [kind |-> "null", err |-> NoRequest]}
    \cup {[kind |-> "failed", err |-> e] : e \in BootErrors}

InitBoot ==
    /\ InitClient
    /\ srvCandidates \in {<<>>, SeedCandidates}
    /\ srvRoles \in {<<>>, SeedRoles}
    /\ srvMatches \in {<<>>, SeedMatches}
    /\ srvOffers \in {<<>>, SeedOffers}
    /\ srvJobs = 0

NextBoot == \E i \in 1..4 : \E o \in BootOutcomes : fetchInitialData(Names[i], o)

SpecBoot == InitBoot /\ [][NextBoot]_vars

(***************************************************************************)
(* SpecGateway: the response interceptor applied to transport errors.      *)
(***************************************************************************)
GwStatuses == {400, 401, 403, 404, 409, 422, 500, 502, 503}
GwDetails == {Null, "", "role not found", "offer not found", "candidate not found",
              "match not found", "invalid payload", "db down", "Not Found", "x",
              "The requested resource was not found", "denied"}
GwCodes == {"ECONNABORTED", "ERR_NETWORK", "ETIMEDOUT", "ERR_CANCELED"}
GwErrors ==
    {HttpError(s, d) : s \in GwStatuses, d \in GwDetails}
    \cup {NoResponse(c) : c \in GwCodes} \cup {NoRequest}

\* a request is rejected: the interceptor attaches userMessage and re-rejects
Reject(e) ==
    /\ gw' = Rejected(e)
    /\ UNCHANGED <<storeVars, bootVars, srvVars, pending, nops, page, last>>

NextGateway == \E e \in GwErrors : Reject(e)

SpecGateway == Init /\ [][NextGateway]_vars

(***************************************************************************)
(* Requests in flight and timers.  A task is                               *)
(*   [op, from, stage, id, patch, snapC, snapR, snapM, snapO, ok, resp, err]*)
(* op is the request or timer outstanding, from the call that began it;    *)
(* stage "sent": the request has left, the backend has not handled it;     *)
(* stage "answered": the backend has handled it, the promise has not       *)
(* settled in the client; stage "timer": a setTimeout callback not yet run.*)
(* snapC, snapR, snapM, snapO are candidates, roles, matches and offers as *)
(* the closure of the call captured them.  pending lists the timers in the *)
(* order they were set.                                                    *)
(***************************************************************************)
NoPatch == [offer |-> [base_salary |-> JsNaN, bonus |-> JsNaN, total_ctc |-> JsNaN],
            status |-> ""]

Task(op, stage, id, patch) ==
    [op |-> op, from |-> op, stage |-> stage, id |-> id, patch |-> patch,
     snapC |-> candidates, snapR |-> roles, snapM |-> matches, snapO |-> offers,
     ok |-> FALSE, resp |-> <<>>, err |-> NoRequest]

\* the page functions that call the services themselves
PageCalls == {"fetchOffers", "fetchData", "handleApproveOffer", "handleSaveEdit",
              "handleGenerateOffers", "runMatchingProcess"}

RemoveAt(q, i) == SubSeq(q, 1, i - 1) \o SubSeq(q, i + 1, Len(q))
Ids(col) == {col[i]._id : i \in 1..Len(col)}
Find(col, id) == col[CHOOSE i \in 1..Len(col) : col[i]._id = id]

CanStart == ~loading /\ pc = "done" /\ nops < MaxOps

\* MessageOr that ignores the gateway's message
MessageOr_Default(e, text) == text

\* MessageOr that yields nothing to show
MessageOr_Silent(e, text) == Null

\* err.userMessage || fallbackText
MessageOr(e, text) == OrText(Rejected(e).userMessage, text)

(***************************************************************************)
(* Backend operations, from the HTTP contract.                             *)
(***************************************************************************)
SrvApprove(col, id) ==
    [i \in 1..Len(col) |-> IF col[i]._id = id THEN [col[i] EXCEPT !.status = "Approved"] ELSE col[i]]

\* PUT /offers/{id}: the body's fields replace the stored ones
SrvUpdate(col, id, patch) ==
    [i \in 1..Len(col) |->
        IF col[i]._id = id
        THEN [col[i] EXCEPT !.offer = patch.offer, !.status = patch.status]
        ELSE col[i]]

\* DELETE /roles/{id} is a soft delete
SrvDeleteRole(col, id) ==
    [i \in 1..Len(col) |-> IF col[i]._id = id THEN [col[i] EXCEPT !.is_active = FALSE] ELSE col[i]]

SrvCreateRole(col, title) ==
    Append(col, [_id |-> "r" \o ToString(Len(col) + 1), title |-> title, is_active |-> TRUE])

\* POST /candidates/upload and POST /matches/process: the backend adds what it produced
SrvUpload(col) ==
    Append(col, [_id |-> "c" \o ToString(Len(col) + 1), name |-> "Uploaded"])
SrvProcess(col) ==
    Append(col, [_id |-> "m" \o ToString(Len(col) + 1), candidate_id |-> "c1", role_id |-> "r2",
                 match_score |-> 70, status |-> "Matched"])

\* bodies POST /offers/{id}/approve may answer with: the offer, or nothing of use
ApproveBodies(col, id) == {<<Find(col, id)>>, <<>>}

OpErrors == {NoResponse("ERR_NETWORK")}

\* the backend handles request i and answers it
SrvAnswer(i) ==
    /\ i \in 1..Len(pending)
    /\ pending[i].stage = "sent"
    /\ LET t == pending[i]
           done(resp) == [pending EXCEPT ![i] = [t EXCEPT !.stage = "answered", !.ok = TRUE, !.resp = resp]]
           refused(e) == [pending EXCEPT ![i] = [t EXCEPT !.stage = "answered", !.ok = FALSE, !.err = e]]
       IN CASE t.op = "approve" ->
                 IF t.id \in Ids(srvOffers)
                 THEN /\ srvOffers' = SrvApprove(srvOffers, t.id)
                      /\ \E body \in ApproveBodies(srvOffers', t.id) : pending' = done(body)
                      /\ UNCHANGED <<srvCandidates, srvRoles, srvMatches, srvJobs>>
                 ELSE /\ pending' = refused(HttpError(404, "Offer not found"))
                      /\ UNCHANGED srvVars
            [] t.op = "update" ->
                 IF t.id \in Ids(srvOffers)
                 THEN /\ srvOffers' = SrvUpdate(srvOffers, t.id, t.patch)
                      /\ pending' = done(<<Find(srvOffers', t.id)>>)
                      /\ UNCHANGED <<srvCandidates, srvRoles, srvMatches, srvJobs>>
                 ELSE /\ pending' = refused(HttpError(404, "Offer not found"))
                      /\ UNCHANGED srvVars
            [] t.op = "generate" ->
                 /\ srvJobs' = srvJobs + 1
                 /\ pending' = done(<<>>)
                 /\ UNCHANGED <<srvCandidates, srvRoles, srvMatches, srvOffers>>
            [] t.op = "refreshOffers" ->
                 /\ pending' = done(SrvList("offers"))
                 /\ UNCHANGED srvVars
            [] t.op = "refreshRoles" ->
                 /\ pending' = done(SrvList("roles"))
                 /\ UNCHANGED srvVars
            [] t.op = "refreshCandidates" ->
                 /\ pending' = done(SrvList("candidates"))
                 /\ UNCHANGED srvVars
            [] t.op = "refreshMatches" ->
                 /\ pending' = done(SrvList("matches"))
                 /\ UNCHANGED srvVars
            [] t.op = "getMatchesAndRoles" ->
                 \* Promise.all([getMatches(), getRoles()]): nothing changes the roles meanwhile
                 /\ pending' = done(<<SrvList("matches"), SrvList("roles")>>)
                 /\ UNCHANGED srvVars
            [] t.op = "upload" ->
                 /\ srvCandidates' = SrvUpload(srvCandidates)
                 /\ pending' = done(<<>>)
                 /\ UNCHANGED <<srvRoles, srvMatches, srvOffers, srvJobs>>
            [] t.op = "process" ->
                 /\ srvMatches' = SrvProcess(srvMatches)
                 /\ pending' = done(<<>>)
                 /\ UNCHANGED <<srvCandidates, srvRoles, srvOffers, srvJobs>>
            [] t.op = "deleteRole" ->
                 IF t.id \in Ids(srvRoles)
                 THEN /\ srvRoles' = SrvDeleteRole(srvRoles, t.id)
                      /\ pending' = done(<<>>)
                      /\ UNCHANGED <<srvCandidates, srvMatches, srvOffers, srvJobs>>
                 ELSE /\ pending' = refused(HttpError(404, "Role not found"))
                      /\ UNCHANGED srvVars
            [] t.op = "createRole" ->
                 /\ srvRoles' = SrvCreateRole(srvRoles, t.id)
                 /\ pending' = done(<<srvRoles'[Len(srvRoles')]>>)
                 /\ UNCHANGED <<srvCandidates, srvMatches, srvOffers, srvJobs>>
    /\ last' = NoLast
    /\ UNCHANGED <<storeVars, bootVars, nops, gw, page>>

\* request i fails in transport: the interceptor rejects it
SrvFail(i, e) ==
    /\ i \in 1..Len(pending)
    /\ pending[i].stage = "sent"
    /\ pending' = [pending EXCEPT ![i] = [@ EXCEPT !.stage = "answered", !.ok = FALSE, !.err = e]]
    /\ last' = NoLast
    /\ UNCHANGED <<storeVars, bootVars, srvVars, nops, gw, page>>

\* an accepted offer-generation job finishes on the backend
SrvJobDone ==
    /\ srvJobs > 0
    /\ srvJobs' = srvJobs - 1
    /\ srvOffers' = Append(srvOffers, SeedOffer("o" \o ToString(Len(srvOffers) + 1), "r1"))
    /\ last' = NoLast
    /\ UNCHANGED <<storeVars, bootVars, srvCandidates, srvRoles, srvMatches, pending, nops, gw, page>>

(***************************************************************************)
(* Mutation coordinator: approveOffer, updateOffer.                        *)
(***************************************************************************)
\* ApproveMap without the comparison of _id: every offer is marked Approved
ApproveMap_All(col, id) ==
    [i \in 1..Len(col) |-> [col[i] EXCEPT !.status = "Approved"]]

\* ApproveMap that returns every offer as it is
ApproveMap_Unchanged(col, id) == col

\* offers.map(offer => offer._id === offerId ? { ...offer, status: 'Approved' } : offer)
ApproveMap(col, id) ==
    [i \in 1..Len(col) |-> IF col[i]._id = id THEN [col[i] EXCEPT !.status = "Approved"] ELSE col[i]]

\* MergeMap with the spread last: { ...offer, status: 'Modified', ...offerData }
MergeMap_PatchStatus(col, id, patch) ==
    [i \in 1..Len(col) |->
        IF col[i]._id = id
        THEN [col[i] EXCEPT !.offer = patch.offer, !.status = patch.status]
        ELSE col[i]]

\* offers.map(offer => offer._id === offerId ? { ...offer, ...offerData, status: 'Modified' } : offer)
MergeMap(col, id, patch) ==
    [i \in 1..Len(col) |->
        IF col[i]._id = id
        THEN [col[i] EXCEPT !.offer = patch.offer, !.status = "Modified"]
        ELSE col[i]]

\* ReplaceMap that forces the status as the fallback branch does
ReplaceMap_ForcedModified(col, id, response) ==
    [i \in 1..Len(col) |->
        IF col[i]._id = id THEN [response EXCEPT !.status = "Modified"] ELSE col[i]]

\* offers.map(offer => offer._id === offerId ? response : offer)
ReplaceMap(col, id, response) ==
    [i \in 1..Len(col) |-> IF col[i]._id = id THEN response ELSE col[i]]

\* handleSaveEdit: the offerData built from the edit dialog's editedOffer
SaveEditPatch(editedOffer) ==
    LET newTotalCTC == JsAdd(parseInt(editedOffer.base_salary), parseInt(OrZero(editedOffer.bonus)))
    IN [offer |-> [editedOffer EXCEPT !.total_ctc = newTotalCTC], status |-> "Modified"]

\* editedOffer when the edit is saved: the offer's package (handleEditOpen) with
\* the texts typed into the two number fields
BaseInputs == {JsStr("60"), JsStr("1.5")}
BonusInputs == {JsStr("7")}
EditedOffers(o) ==
    {[o.offer EXCEPT !.base_salary = b, !.bonus = c] : b \in BaseInputs, c \in BonusInputs}

approveOffer(offerId) ==
    /\ CanStart
    /\ offerId \in Ids(offers)
    /\ nops' = nops + 1
    /\ IF useFallbackData
       THEN /\ offers' = ApproveMap(offers, offerId)
            /\ last' = Did("approved", offerId, FALSE, offers)
            /\ UNCHANGED pending
       ELSE /\ pending' = Append(pending, Task("approve", "sent", offerId, NoPatch))
            /\ last' = NoLast
            /\ UNCHANGED offers
    /\ UNCHANGED <<candidates, roles, matches, loading, error, useFallbackData, nullCols,
                   bootVars, srvVars, gw, page>>

updateOffer(offerId, offerData) ==
    /\ CanStart
    /\ offerId \in Ids(offers)
    /\ nops' = nops + 1
    /\ IF useFallbackData
       THEN /\ offers' = MergeMap(offers, offerId, offerData)
            /\ last' = DidUpdate(offerId, offers, offerData)
            /\ UNCHANGED pending
       ELSE /\ pending' = Append(pending, Task("update", "sent", offerId, offerData))
            /\ last' = NoLast
            /\ UNCHANGED offers
    /\ UNCHANGED <<candidates, roles, matches, loading, error, useFallbackData, nullCols,
                   bootVars, srvVars, gw, page>>

(***************************************************************************)
(* Workflow trigger: generateOffers.                                       *)
(***************************************************************************)
\* SimulatedOffer numbered from the length itself: mock${offers.length}
SimulatedOffer_NumberedFromLength(snapO, snapC, snapR) ==
    [_id |-> "mock" \o ToString(Len(snapO)),
     candidate_id |-> snapC[1]._id, role_id |-> snapR[1]._id,
     match_score |-> 75, status |-> "Pending Approval",
     offer |-> [base_salary |-> JsNum(90000), bonus |-> JsNum(9000), total_ctc |-> JsNum(99000)]]

\* the offer the fallback timer appends, from the collections its closure captured
SimulatedOffer(snapO, snapC, snapR) ==
    [_id |-> "mock" \o ToString(Len(snapO) + 1),
     candidate_id |-> snapC[1]._id, role_id |-> snapR[1]._id,
     match_score |-> 75, status |-> "Pending Approval",
     offer |-> [base_salary |-> JsNum(90000), bonus |-> JsNum(9000), total_ctc |-> JsNum(99000)]]

generateOffers ==
    /\ CanStart
    /\ nops' = nops + 1
    /\ pending' = Append(pending,
                         IF useFallbackData THEN Task("simOffer", "timer", "", NoPatch)
                         ELSE Task("generate", "sent", "", NoPatch))
    /\ last' = NoLast
    /\ UNCHANGED <<storeVars, bootVars, srvVars, gw, page>>

\* the candidate and the match the fallback timers append
SimulatedCandidate(snapC) ==
    [_id |-> "mock" \o ToString(Len(snapC) + 1), name |-> "New Candidate"]
SimulatedMatch(snapM, snapC, snapR) ==
    [_id |-> "mock" \o ToString(Len(snapM) + 1),
     candidate_id |-> snapC[1]._id, role_id |-> snapR[1]._id,
     match_score |-> 75, status |-> "Matched"]

uploadCandidates ==
    /\ CanStart
    /\ nops' = nops + 1
    /\ pending' = Append(pending,
                         IF useFallbackData THEN Task("simCandidate", "timer", "", NoPatch)
                         ELSE Task("upload", "sent", "", NoPatch))
    /\ last' = NoLast
    /\ UNCHANGED <<storeVars, bootVars, srvVars, gw, page>>

runMatching ==
    /\ CanStart
    /\ nops' = nops + 1
    /\ pending' = Append(pending,
                         IF useFallbackData THEN Task("simMatch", "timer", "", NoPatch)
                         ELSE Task("process", "sent", "", NoPatch))
    /\ last' = NoLast
    /\ UNCHANGED <<storeVars, bootVars, srvVars, gw, page>>

(***************************************************************************)
(* refreshCandidates, refreshRoles, refreshMatches, refreshOffers called   *)
(* by a consumer of the context.                                           *)
(***************************************************************************)
RefreshOp(name) ==
    CASE name = "candidates" -> "refreshCandidates"
      [] name = "roles" -> "refreshRoles"
      [] name = "matches" -> "refreshMatches"
      [] name = "offers" -> "refreshOffers"

\* refresh without the test of useFallbackData
refresh_AlwaysLive(name) ==
    /\ CanStart
    /\ nops' = nops + 1
    /\ pending' = Append(pending, Task(RefreshOp(name), "sent", name, NoPatch))
    /\ last' = NoLast
    /\ UNCHANGED <<storeVars, bootVars, srvVars, gw, page>>

refresh(name) ==
    /\ CanStart
    /\ nops' = nops + 1
    /\ IF useFallbackData
       THEN \* return mockData.<name>
            /\ last' = Did("refreshReturned", name, FALSE, mockData[name])
            /\ UNCHANGED pending
       ELSE /\ pending' = Append(pending, Task(RefreshOp(name), "sent", name, NoPatch))
            /\ last' = NoLast
    /\ UNCHANGED <<storeVars, bootVars, srvVars, gw, page>>

\* clearError: setError(null)
clearError ==
    /\ CanStart
    /\ nops' = nops + 1
    /\ error' = Null
    /\ last' = Did("errorCleared", "", FALSE, <<>>)
    /\ UNCHANGED <<candidates, roles, matches, offers, loading, useFallbackData, nullCols,
                   pending, bootVars, srvVars, gw, page>>

(***************************************************************************)
(* RoleManagement page: handleDeleteRole and handleSubmit (add mode) call  *)
(* roleService directly, then await refreshRoles().                        *)
(***************************************************************************)
handleDeleteRole(roleId) ==
    /\ CanStart
    /\ roleId \in {roles[i]._id : i \in {j \in 1..Len(roles) : roles[j].is_active}}
    /\ nops' = nops + 1
    /\ pending' = Append(pending, Task("deleteRole", "sent", roleId, NoPatch))
    /\ last' = NoLast
    /\ UNCHANGED <<storeVars, bootVars, srvVars, gw, page>>

handleSubmit(title) ==
    /\ CanStart
    /\ nops' = nops + 1
    /\ pending' = Append(pending, Task("createRole", "sent", title, NoPatch))
    /\ last' = NoLast
    /\ UNCHANGED <<storeVars, bootVars, srvVars, gw, page>>

(***************************************************************************)
(* Continuations: a promise settles in the client, a timer fires.          *)
(***************************************************************************)
\* refreshOffers that keeps the offers it held and adds the listed ones it lacks
refreshOffers_Merged(held, data) ==
    held \o SelectSeq(data, LAMBDA o : o._id \notin Ids(held))

\* refreshOffers that writes back the offers its closure captured
refreshOffers_Captured(held, data) == held

\* refreshOffers, live branch: const data = await offerService.getOffers(); setOffers(data)
refreshOffers(held, data) == data

\* refreshRoles, live branch: const data = await roleService.getRoles(); setRoles(data)
refreshRoles(held, data) == data

\* refreshCandidates that appends the listed candidates to the ones it held
refreshCandidates_Appended(held, data) == held \o data

\* refreshCandidates, live branch: const data = await candidateService.getCandidates(); setCandidates(data)
refreshCandidates(held, data) == data

\* refreshMatches, live branch: const data = await matchService.getMatches(); setMatches(data)
refreshMatches(held, data) == data

\* every workflow re-fetches the offers
Refetch_AlwaysOffers(op) == "refreshOffers"

\* the refresh function a live workflow hands to setTimeout
Refetch(op) ==
    CASE op = "upload" -> "refreshCandidates"
      [] op = "process" -> "refreshMatches"
      [] op = "generate" -> "refreshOffers"

\* the promise of request i settles and the code after its await runs
Settle(i) ==
    /\ i \in 1..Len(pending)
    /\ pending[i].stage = "answered"
    /\ pending[i].from \notin PageCalls
    /\ LET t == pending[i]
           gone == RemoveAt(pending, i)
           \* await refreshRoles() in the page handlers: the fallback branch returns
           \* mockData.roles at once, the live branch issues getRoles()
           thenRefreshRoles ==
               IF useFallbackData THEN gone
               ELSE [pending EXCEPT ![i] = [t EXCEPT !.op = "refreshRoles", !.stage = "sent",
                                                      !.ok = FALSE, !.resp = <<>>]]
       IN CASE t.op = "approve" ->
                 /\ pending' = gone
                 /\ IF t.ok
                    THEN /\ offers' = ApproveMap(t.snapO, t.id)
                         /\ last' = DidApprove(t.id, t.snapO, t.resp)
                         /\ UNCHANGED <<candidates, roles, matches, loading, error,
                                        useFallbackData, nullCols>>
                    ELSE /\ error' = MessageOr(t.err, "Error approving offer")
                         /\ last' = Did("approveFailed", t.id, TRUE, t.snapO)
                         /\ UNCHANGED <<candidates, roles, matches, offers, loading,
                                        useFallbackData, nullCols>>
            [] t.op = "update" ->
                 /\ pending' = gone
                 /\ IF t.ok
                    THEN /\ offers' = ReplaceMap(t.snapO, t.id, t.resp[1])
                         /\ last' = DidUpdate(t.id, t.snapO, t.patch)
                         /\ UNCHANGED <<candidates, roles, matches, loading, error,
                                        useFallbackData, nullCols>>
                    ELSE /\ error' = MessageOr(t.err, "Error updating offer")
                         /\ last' = Did("updateFailed", t.id, TRUE, t.snapO)
                         /\ UNCHANGED <<candidates, roles, matches, offers, loading,
                                        useFallbackData, nullCols>>
            [] t.op = "generate" ->
                 IF t.ok
                 THEN \* setTimeout(refreshOffers, 3000)
                      /\ pending' = Append(gone, [t EXCEPT !.op = "refreshOffers", !.stage = "timer",
                                                            !.ok = FALSE, !.resp = <<>>])
                      /\ last' = Did("generateAccepted", "", FALSE, t.snapO)
                      /\ UNCHANGED storeVars
                 ELSE /\ pending' = gone
                      /\ error' = MessageOr(t.err, "Error generating offers")
                      /\ last' = Did("generateFailed", "", TRUE, t.snapO)
                      /\ UNCHANGED <<candidates, roles, matches, offers, loading,
                                     useFallbackData, nullCols>>
            [] t.op = "refreshOffers" ->
                 /\ pending' = gone
                 /\ IF t.ok
                    THEN /\ offers' = refreshOffers(t.snapO, t.resp)
                         /\ last' = Did("offersRefreshed", "", FALSE, t.resp)
                         /\ UNCHANGED <<candidates, roles, matches, loading, error,
                                        useFallbackData, nullCols>>
                    ELSE /\ error' = MessageOr(t.err, "Error refreshing offers")
                         /\ last' = DidThrow("refreshOffersFailed", t.id, t.from)
                         /\ UNCHANGED <<candidates, roles, matches, offers, loading,
                                        useFallbackData, nullCols>>
            [] t.op = "refreshRoles" ->
                 /\ pending' = gone
                 /\ IF t.ok
                    THEN /\ roles' = refreshRoles(t.snapR, t.resp)
                         /\ last' = Did(IF t.from = "deleteRole" THEN "rolesRefreshedAfterDelete"
                                        ELSE IF t.from = "createRole" THEN "rolesRefreshedAfterCreate"
                                        ELSE "rolesRefreshed", t.id, FALSE, t.snapR)
                         /\ UNCHANGED <<candidates, matches, offers, loading, error,
                                        useFallbackData, nullCols>>
                    ELSE \* refreshRoles re-throws (to the page handler's catch, when a page called it)
                         /\ error' = MessageOr(t.err, "Error refreshing roles")
                         /\ last' = DidThrow("refreshRolesFailed", t.id, t.from)
                         /\ UNCHANGED <<candidates, roles, matches, offers, loading,
                                        useFallbackData, nullCols>>
            [] t.op = "refreshCandidates" ->
                 /\ pending' = gone
                 /\ IF t.ok
                    THEN /\ candidates' = refreshCandidates(t.snapC, t.resp)
                         /\ last' = Did("candidatesRefreshed", t.id, FALSE, t.resp)
                         /\ UNCHANGED <<roles, matches, offers, loading, error,
                                        useFallbackData, nullCols>>
                    ELSE /\ error' = MessageOr(t.err, "Error refreshing candidates")
                         /\ last' = DidThrow("refreshCandidatesFailed", t.id, t.from)
                         /\ UNCHANGED <<candidates, roles, matches, offers, loading,
                                        useFallbackData, nullCols>>
            [] t.op = "refreshMatches" ->
                 /\ pending' = gone
                 /\ IF t.ok
                    THEN /\ matches' = refreshMatches(t.snapM, t.resp)
                         /\ last' = Did("matchesRefreshed", t.id, FALSE, t.resp)
                         /\ UNCHANGED <<candidates, roles, offers, loading, error,
                                        useFallbackData, nullCols>>
                    ELSE /\ error' = MessageOr(t.err, "Error refreshing matches")
                         /\ last' = DidThrow("refreshMatchesFailed", t.id, t.from)
                         /\ UNCHANGED <<candidates, roles, matches, offers, loading,
                                        useFallbackData, nullCols>>
            [] t.op \in {"upload", "process"} ->
                 IF t.ok
                 THEN \* setTimeout(refreshCandidates, 2000) / setTimeout(refreshMatches, 3000)
                      /\ pending' = Append(gone, [t EXCEPT !.op = Refetch(t.op), !.stage = "timer",
                                                            !.ok = FALSE, !.resp = <<>>])
                      /\ last' = Did(IF t.op = "upload" THEN "uploadAccepted" ELSE "processAccepted",
                                     "", FALSE, <<>>)
                      /\ UNCHANGED storeVars
                 ELSE /\ pending' = gone
                      /\ error' = MessageOr(t.err, IF t.op = "upload" THEN "Error uploading candidates"
                                                   ELSE "Error running matching process")
                      /\ last' = Did(IF t.op = "upload" THEN "uploadFailed" ELSE "processFailed",
                                     "", TRUE, <<>>)
                      /\ UNCHANGED <<candidates, roles, matches, offers, loading,
                                     useFallbackData, nullCols>>
            [] t.op = "deleteRole" ->
                 /\ pending' = IF t.ok THEN thenRefreshRoles ELSE gone
                 /\ last' = Did(IF t.ok THEN "roleDeleted" ELSE "deleteRoleFailed", t.id, FALSE, t.snapR)
                 /\ UNCHANGED storeVars
            [] t.op = "createRole" ->
                 /\ pending' = IF t.ok THEN thenRefreshRoles ELSE gone
                 /\ last' = Did(IF t.ok THEN "roleCreated" ELSE "createRoleFailed", t.id, FALSE, t.snapR)
                 /\ UNCHANGED storeVars
    /\ UNCHANGED <<bootVars, srvVars, nops, gw, page>>

\* the delay of the setTimeout that runs op
Delay(op) ==
    CASE op \in {"simCandidate", "simMatch", "simOffer"} -> 1000
      [] op = "refreshCandidates" -> 2000
      [] op \in {"refreshMatches", "refreshOffers"} -> 3000

\* timers of one delay run in the order they were set
FirstTimer(i) ==
    \A j \in 1..(i - 1) :
        ~(/\ pending[j].stage = "timer" /\ pending[j].from \notin PageCalls
          /\ Delay(pending[j].op) = Delay(pending[i].op))

\* the setTimeout callback of task i runs
Fire(i) ==
    /\ i \in 1..Len(pending)
    /\ pending[i].stage = "timer"
    /\ pending[i].from \notin PageCalls
    /\ FirstTimer(i)
    /\ LET t == pending[i]
       IN CASE t.op = "simOffer" ->
                 /\ pending' = RemoveAt(pending, i)
                 /\ offers' = Append(t.snapO, SimulatedOffer(t.snapO, t.snapC, t.snapR))
                 /\ last' = Did("offerSimulated", "", FALSE, t.snapO)
                 /\ UNCHANGED <<candidates, roles, matches, loading, error,
                                useFallbackData, nullCols>>
            [] t.op = "simCandidate" ->
                 /\ pending' = RemoveAt(pending, i)
                 /\ candidates' = Append(t.snapC, SimulatedCandidate(t.snapC))
                 /\ last' = Did("candidateSimulated", "", FALSE, t.snapC)
                 /\ UNCHANGED <<roles, matches, offers, loading, error,
                                useFallbackData, nullCols>>
            [] t.op = "simMatch" ->
                 /\ pending' = RemoveAt(pending, i)
                 /\ matches' = Append(t.snapM, SimulatedMatch(t.snapM, t.snapC, t.snapR))
                 /\ last' = Did("matchSimulated", "", FALSE, t.snapM)
                 /\ UNCHANGED <<candidates, roles, offers, loading, error,
                                useFallbackData, nullCols>>
            [] t.op \in {"refreshCandidates", "refreshMatches", "refreshOffers"} ->
                 \* refresh<Entity>(): useFallbackData is false in the closure that set the timer
                 /\ pending' = [pending EXCEPT ![i] = [t EXCEPT !.stage = "sent"]]
                 /\ last' = NoLast
                 /\ UNCHANGED storeVars
    /\ UNCHANGED <<bootVars, srvVars, nops, gw, page>>

(***************************************************************************)
(* Spec: bootstrap against a seeded backend that is reachable for all four *)
(* fetches or for none, then the offer operations.  SpecRoles: the same    *)
(* bootstrap, then the RoleManagement page's handlers.                     *)
(***************************************************************************)
CoreOutcomes == {[kind |-> "ok", err |-> NoRequest]} \cup {[kind |-> "failed", err |-> e] : e \in OpErrors}
RoleTitles == {"X"}

\* the backend answers every bootstrap fetch or none of them
Uniform(name, o) == name = "candidates" \/ fetched["candidates"].kind = o.kind

Bootstrap == \E i \in 1..4 : \E o \in CoreOutcomes : Uniform(Names[i], o) /\ fetchInitialData(Names[i], o)

Next ==
    \/ Bootstrap
    \/ \E id \in Ids(offers) : approveOffer(id)
    \/ \E id \in Ids(offers) : \E e \in EditedOffers(Find(offers, id)) : updateOffer(id, SaveEditPatch(e))
    \/ generateOffers
    \/ \E i \in 1..Len(pending) : SrvAnswer(i)
    \/ \E i \in 1..Len(pending) : \E e \in OpErrors : SrvFail(i, e)
    \/ SrvJobDone
    \/ \E i \in 1..Len(pending) : Settle(i)
    \/ \E i \in 1..Len(pending) : Fire(i)

Spec == Init /\ [][Next]_vars

NextRoles ==
    \/ Bootstrap
    \/ \E id \in Ids(roles) : handleDeleteRole(id)
    \/ \E title \in RoleTitles : handleSubmit(title)
    \/ \E i \in 1..Len(pending) : SrvAnswer(i)
    \/ \E i \in 1..Len(pending) : \E e \in OpErrors : SrvFail(i, e)
    \/ \E i \in 1..Len(pending) : Settle(i)

SpecRoles == Init /\ [][NextRoles]_vars

(***************************************************************************)
(* SpecStore: bootstrap against a backend that answers every fetch with a  *)
(* list, or every fetch with a null body, or none; then every function of  *)
(* the context value: the four refreshes, the three workflow triggers,     *)
(* clearError, approveOffer and updateOffer with patches of either status. *)
(***************************************************************************)
PatchStatuses == {"Modified", "Approved"}

\* the patches a consumer passes to updateOffer: one saved edit, with either status
StorePatches(o) ==
    {[SaveEditPatch([o.offer EXCEPT !.base_salary = JsStr("60"), !.bonus = JsStr("7")])
         EXCEPT !.status = st] : st \in PatchStatuses}

\* the offer approveOffer and updateOffer are called on: the first of the collection
StoreOfferIds == IF offers = <<>> THEN {} ELSE {offers[1]._id}

StoreOutcomes == CoreOutcomes \cup {[kind |-> "null", err |-> NoRequest]}

BootstrapStore ==
    \E i \in 1..4 : \E o \in StoreOutcomes : Uniform(Names[i], o) /\ fetchInitialData(Names[i], o)

NextStore ==
    \/ BootstrapStore
    \/ \E n \in NameSet : refresh(n)
    \/ uploadCandidates
    \/ runMatching
    \/ generateOffers
    \/ \E id \in StoreOfferIds : approveOffer(id)
    \/ \E id \in StoreOfferIds : \E p \in StorePatches(Find(offers, id)) : updateOffer(id, p)
    \/ clearError
    \/ \E i \in 1..Len(pending) : SrvAnswer(i)
    \/ \E i \in 1..Len(pending) : \E e \in OpErrors : SrvFail(i, e)
    \/ SrvJobDone
    \/ \E i \in 1..Len(pending) : Settle(i)
    \/ \E i \in 1..Len(pending) : Fire(i)

SpecStore == Init /\ [][NextStore]_vars

(***************************************************************************)
(* The Offer Recommendations and Role Matching pages.  Each keeps its own  *)
(* useState copy of the collection it lists and calls offerService and     *)
(* matchService itself; neither reads or writes the context.  A behaviour  *)
(* visits one page.  The page's requests and timer join pending with the   *)
(* page's offers, matches and roles as their closure captured them.        *)
(***************************************************************************)
PageTask(op, from, id, patch) ==
    [Task(op, "sent", id, patch) EXCEPT !.from = from, !.snapO = page.offers,
                                        !.snapM = page.matches, !.snapR = page.roles]

\* AppContent renders the routes only when it shows neither LoadingScreen nor ErrorScreen
CanOpen == Screen = "Router" /\ pc = "done" /\ page.at = "none"

\* the page is past its own loading spinner, so its buttons are rendered
PageCanStart(p) == Screen = "Router" /\ page.at = p /\ ~page.loading /\ nops < MaxOps

\* OfferRecommendation mounts: useEffect runs fetchOffers, which awaits getOffers()
OpenOfferRecommendation ==
    /\ CanOpen
    /\ page' = [NoPage EXCEPT !.at = "offers"]
    /\ pending' = Append(pending, PageTask("refreshOffers", "fetchOffers", "", NoPatch))
    /\ last' = NoLast
    /\ UNCHANGED <<storeVars, bootVars, srvVars, nops, gw>>

\* RoleMatching mounts: useEffect runs fetchData, which awaits getMatches() and getRoles()
OpenRoleMatching ==
    /\ CanOpen
    /\ page' = [NoPage EXCEPT !.at = "matching"]
    /\ pending' = Append(pending, PageTask("getMatchesAndRoles", "fetchData", "", NoPatch))
    /\ last' = NoLast
    /\ UNCHANGED <<storeVars, bootVars, srvVars, nops, gw>>

\* handleApproveOffer(offerId), up to its await
handleApproveOffer(offerId) ==
    /\ PageCanStart("offers")
    /\ offerId \in Ids(page.offers)
    /\ nops' = nops + 1
    /\ pending' = Append(pending, PageTask("approve", "handleApproveOffer", offerId, NoPatch))
    /\ last' = NoLast
    /\ UNCHANGED <<storeVars, bootVars, srvVars, gw, page>>

\* handleEditOpen(offer) and handleSaveEdit, up to its await
handleSaveEdit(offerId, editedOffer) ==
    /\ PageCanStart("offers")
    /\ offerId \in Ids(page.offers)
    /\ nops' = nops + 1
    /\ pending' = Append(pending, PageTask("update", "handleSaveEdit", offerId,
                                           SaveEditPatch(editedOffer)))
    /\ last' = NoLast
    /\ UNCHANGED <<storeVars, bootVars, srvVars, gw, page>>

\* handleGenerateOffers, up to its await; the button that calls it is disabled
\* while generating
handleGenerateOffers ==
    /\ PageCanStart("offers")
    /\ ~page.generating
    /\ nops' = nops + 1
    /\ page' = [page EXCEPT !.generating = TRUE]
    /\ pending' = Append(pending, PageTask("generate", "handleGenerateOffers", "", NoPatch))
    /\ last' = NoLast
    /\ UNCHANGED <<storeVars, bootVars, srvVars, gw>>

\* runMatchingProcess, up to its await; the button that calls it is disabled
\* while processing
runMatchingProcess ==
    /\ PageCanStart("matching")
    /\ ~page.processing
    /\ nops' = nops + 1
    /\ page' = [page EXCEPT !.processing = TRUE]
    /\ pending' = Append(pending, PageTask("process", "runMatchingProcess", "", NoPatch))
    /\ last' = NoLast
    /\ UNCHANGED <<storeVars, bootVars, srvVars, gw>>

\* the timer callback of handleGenerateOffers without its finally block
PollOffers_NoFinally(pg, ok, updatedOffers) ==
    IF ok THEN [pg EXCEPT !.offers = updatedOffers, !.generating = FALSE]
    ELSE pg

\* the timer callback of handleGenerateOffers after its await:
\* try { setOffers(updatedOffers) } catch { log } finally { setGenerating(false) }
PollOffers(pg, ok, updatedOffers) ==
    IF ok THEN [pg EXCEPT !.offers = updatedOffers, !.generating = FALSE]
    ELSE [pg EXCEPT !.generating = FALSE]

\* the timer callback of runMatchingProcess after its await
PollMatches(pg, ok, updatedMatches) ==
    IF ok THEN [pg EXCEPT !.matches = updatedMatches, !.processing = FALSE]
    ELSE [pg EXCEPT !.processing = FALSE]

\* the promise a page function awaits settles and the code after the await runs
PageSettle(i) ==
    /\ i \in 1..Len(pending)
    /\ pending[i].stage = "answered"
    /\ pending[i].from \in PageCalls
    /\ LET t == pending[i]
           gone == RemoveAt(pending, i)
           \* setTimeout(async () => {...}, 5000)
           polling == Append(gone, [t EXCEPT !.stage = "timer", !.ok = FALSE, !.resp = <<>>])
       IN CASE t.from = "fetchOffers" ->
                 /\ pending' = gone
                 /\ page' = IF t.ok THEN [page EXCEPT !.offers = t.resp, !.loading = FALSE]
                            ELSE [page EXCEPT !.notification = "error", !.loading = FALSE]
                 /\ last' = Did(IF t.ok THEN "pageOffersLoaded" ELSE "pageLoadFailed", "", FALSE, <<>>)
            [] t.from = "fetchData" ->
                 /\ pending' = gone
                 /\ page' = IF t.ok
                            THEN [page EXCEPT !.matches = t.resp[1], !.roles = t.resp[2],
                                              !.loading = FALSE]
                            ELSE [page EXCEPT !.notification = "error", !.loading = FALSE]
                 /\ last' = Did(IF t.ok THEN "pageMatchesLoaded" ELSE "pageLoadFailed", "", FALSE, <<>>)
            [] t.from = "handleApproveOffer" ->
                 /\ pending' = gone
                 /\ page' = IF t.ok
                            THEN [page EXCEPT !.offers = ApproveMap(t.snapO, t.id),
                                              !.notification = "success"]
                            ELSE [page EXCEPT !.notification = "error"]
                 /\ last' = Did(IF t.ok THEN "pageApproved" ELSE "pageApproveFailed", t.id, FALSE, t.snapO)
            [] t.from = "handleSaveEdit" ->
                 /\ pending' = gone
                 /\ page' = IF t.ok
                            THEN [page EXCEPT !.offers = ReplaceMap(t.snapO, t.resp[1]._id, t.resp[1]),
                                              !.notification = "success"]
                            ELSE [page EXCEPT !.notification = "error"]
                 /\ last' = Did(IF t.ok THEN "pageUpdated" ELSE "pageUpdateFailed", t.id, FALSE, t.snapO)
            [] t.from = "handleGenerateOffers" /\ t.op = "generate" ->
                 /\ pending' = IF t.ok THEN polling ELSE gone
                 /\ page' = IF t.ok THEN [page EXCEPT !.notification = "success"]
                            ELSE [page EXCEPT !.notification = "error", !.generating = FALSE]
                 /\ last' = Did(IF t.ok THEN "pageGenerateAccepted" ELSE "pageGenerateFailed",
                                "", FALSE, <<>>)
            [] t.from = "handleGenerateOffers" /\ t.op = "refreshOffers" ->
                 /\ pending' = gone
                 /\ page' = PollOffers(page, t.ok, t.resp)
                 /\ last' = Did(IF t.ok THEN "pageOffersPolled" ELSE "pagePollFailed", "", FALSE, <<>>)
            [] t.from = "runMatchingProcess" /\ t.op = "process" ->
                 /\ pending' = IF t.ok THEN polling ELSE gone
                 /\ page' = IF t.ok THEN [page EXCEPT !.notification = "success"]
                            ELSE [page EXCEPT !.notification = "error", !.processing = FALSE]
                 /\ last' = Did(IF t.ok THEN "pageProcessAccepted" ELSE "pageProcessFailed",
                                "", FALSE, <<>>)
            [] t.from = "runMatchingProcess" /\ t.op = "refreshMatches" ->
                 /\ pending' = gone
                 /\ page' = PollMatches(page, t.ok, t.resp)
                 /\ last' = Did(IF t.ok THEN "pageMatchesPolled" ELSE "pagePollFailed", "", FALSE, <<>>)
    /\ UNCHANGED <<storeVars, bootVars, srvVars, nops, gw>>

\* the 5-second timer of a page runs: its callback awaits getOffers() or getMatches()
PageFire(i) ==
    /\ i \in 1..Len(pending)
    /\ pending[i].stage = "timer"
    /\ pending[i].from \in PageCalls
    /\ \A j \in 1..(i - 1) : ~(pending[j].stage = "timer" /\ pending[j].from \in PageCalls)
    /\ pending' = [pending EXCEPT ![i] = [@ EXCEPT !.stage = "sent",
                                                   !.op = IF @ = "generate" THEN "refreshOffers"
                                                          ELSE "refreshMatches"]]
    /\ last' = NoLast
    /\ UNCHANGED <<storeVars, bootVars, srvVars, nops, gw, page>>

\* the edit a visitor of the page saves
PageEdits(o) == {[o.offer EXCEPT !.base_salary = JsStr("60"), !.bonus = JsStr("7")]}

\* what the event loop and the network do without the user: a request is
\* answered or fails (axios gives up after its timeout), a promise settles,
\* a timer runs
PageProgress ==
    \/ \E i \in 1..Len(pending) : SrvAnswer(i)
    \/ \E i \in 1..Len(pending) : \E e \in OpErrors : SrvFail(i, e)
    \/ \E i \in 1..Len(pending) : PageSettle(i)
    \/ \E i \in 1..Len(pending) : PageFire(i)

NextPages ==
    \/ Bootstrap
    \/ OpenOfferRecommendation
    \/ OpenRoleMatching
    \/ \E id \in Ids(page.offers) : handleApproveOffer(id)
    \/ \E id \in Ids(page.offers) : \E e \in PageEdits(Find(page.offers, id)) : handleSaveEdit(id, e)
    \/ handleGenerateOffers
    \/ runMatchingProcess
    \/ SrvJobDone
    \/ PageProgress

SpecPages == Init /\ [][NextPages]_vars /\ WF_vars(PageProgress)

(***************************************************************************)
(* Properties.                                                             *)
(***************************************************************************)
Store(n) ==
    CASE n = "candidates" -> candidates
      [] n = "roles" -> roles
      [] n = "matches" -> matches
      [] n = "offers" -> offers

BootDone == pc = "done"
FailedOrEmpty(n) ==
    \/ fetched[n].kind = "failed"
    \/ fetched[n].kind = "ok" /\ fetched[n].data = <<>>
ReturnedNonEmpty(n) == fetched[n].kind = "ok" /\ fetched[n].data # <<>>
ListOrFailure(n) == fetched[n].kind \in {"ok", "failed"}

\* C1: after bootstrap, if every one of the four list() calls failed or returned
\* an empty collection, useFallbackData is true and the four collections of the
\* Store are exactly mockData's.
C1_TotalFailureFallsBack ==
    (BootDone /\ \A n \in NameSet : FailedOrEmpty(n))
        => /\ useFallbackData
           /\ \A n \in NameSet : Store(n) = mockData[n]
           /\ nullCols = {}

\* bootstrap is over, one fetch failed, another returned an empty list, none returned data
C1_Witness ==
    /\ BootDone
    /\ \A n \in NameSet : FailedOrEmpty(n)
    /\ \E n \in NameSet : fetched[n].kind = "failed"
    /\ \E n \in NameSet : fetched[n].kind = "ok"
    /\ useFallbackData

\* C2: when every fetch ended in a list or a failure and at least one list is
\* non-empty, useFallbackData is false after bootstrap and each collection is
\* exactly what its own fetch returned, empty if that fetch failed; a failed
\* fetch is always followed by the next fetch.
C2_PartialSuccessKeepsFetched ==
    /\ (BootDone /\ (\A n \in NameSet : ListOrFailure(n)) /\ (\E n \in NameSet : ReturnedNonEmpty(n)))
          => /\ ~useFallbackData
             /\ nullCols = {}
             /\ \A n \in NameSet :
                   Store(n) = IF fetched[n].kind = "ok" THEN SrvList(n) ELSE <<>>
    /\ \A i \in 1..4 :
          fetched[Names[i]].kind = "failed"
            => /\ pc # Names[i]
               /\ \A j \in 1..(i - 1) : pc # Names[j]
    /\ BootDone => \A n \in NameSet : fetched[n].kind # "pending"

\* bootstrap is over, exactly one fetch returned data and the three others failed
C2_Witness ==
    /\ BootDone
    /\ \E n \in NameSet :
          /\ ReturnedNonEmpty(n)
          /\ \A m \in NameSet \ {n} : fetched[m].kind = "failed"
          /\ Store(n) # <<>>
    /\ ~useFallbackData

\* C4 (as claimed): after bootstrap the failure screen is shown only when
\* bootstrap raised an exception outside the four per-fetch guards.
C4_ErrorScreenOnlyOnException ==
    (BootDone /\ Screen = "ErrorScreen") => hasData(fetched, 1) = "throws"

StartsWith(s, p) == Len(s) >= Len(p) /\ SubSeq(s, 1, Len(p)) = p
Contains(s, d) == \E i \in 1..(Len(s) - Len(d) + 1) : SubSeq(s, i, i + Len(d) - 1) = d

\* C10: for a 404 response with body {detail: d} the rejected error's message
\* starts with "Not Found:" and contains d; for a 404 without detail it starts
\* with "Not Found:" and carries the default text; no other error is given
\* that prefix.
C10_NotFoundMessage ==
    /\ (gw.err.response /\ gw.err.status = 404)
          => /\ StartsWith(gw.userMessage, "Not Found:")
             /\ IF gw.err.detail \in {Null, ""}
                THEN gw.userMessage = "Not Found: The requested resource was not found"
                ELSE Contains(gw.userMessage, gw.err.detail)
    /\ (gw.userMessage # Null /\ StartsWith(gw.userMessage, "Not Found:"))
          => gw.err.response /\ gw.err.status = 404

\* the interceptor has rejected a 404 whose body is {detail: 'role not found'}
C10_Witness ==
    /\ gw.err.response /\ gw.err.status = 404 /\ gw.err.detail = "role not found"
    /\ gw.userMessage = "Not Found: role not found"

Status(col, id) == Find(col, id).status

\* C3 (as claimed): once an offer in the Store is Approved or Modified, no later
\* state of the Store holds it as Pending Approval.
C3_NeverBackToPending ==
    [][\A id \in Ids(offers) :
          (Status(offers, id) \in {"Approved", "Modified"} /\ id \in Ids(offers'))
              => Status(offers', id) # "Pending Approval"]_vars

\* C5 (as claimed): when handleDeleteRole(id) and the refresh it awaits have
\* completed, id is still in the Store's roles, inactive, and every offer and
\* match of the Store that refers to id resolves to a role of the collection.
C5_SoftDeleteKeepsRole ==
    last.op = "rolesRefreshedAfterDelete"
        => /\ last.id \in Ids(roles)
           /\ ~Find(roles, last.id).is_active
           /\ \A i \in 1..Len(offers) : offers[i].role_id = last.id => offers[i].role_id \in Ids(roles)
           /\ \A i \in 1..Len(matches) : matches[i].role_id = last.id => matches[i].role_id \in Ids(roles)

\* Number(v) in tenths, for the texts a number field yields: digits, optionally
\* followed by "." and one digit; the empty text is 0
Number10(v) ==
    IF v.t = "number" THEN 10 * v.n
    ELSE LET k == DigitRun(v.s, 1)
         IN IF k + 2 = Len(v.s) /\ SubSeq(v.s, k + 1, k + 1) = "."
            THEN 10 * DigitsValue(v.s, k) + DigitVal(SubSeq(v.s, k + 2, k + 2))
            ELSE 10 * DigitsValue(v.s, k)

TotalIsBasePlusBonus(o) ==
    /\ o.offer.total_ctc.t = "number"
    /\ Number10(o.offer.total_ctc) = Number10(o.offer.base_salary) + Number10(o.offer.bonus)

\* C6 (as claimed): after an edit saved through updateOffer, the edited offer in
\* the Store has total_ctc = base_salary + bonus and status Modified, and the
\* same patch applied again changes neither.
C6_TotalIsSumAfterUpdate ==
    (last.op = "updated" /\ last.id \in Ids(offers))
        => /\ Status(offers, last.id) = "Modified"
           /\ TotalIsBasePlusBonus(Find(offers, last.id))
           /\ \A e \in EditedOffers(Find(last.read, last.id)) :
                 SaveEditPatch(e).offer = Find(offers, last.id).offer
                    => MergeMap(offers, last.id, SaveEditPatch(e)) = offers

\* C7 (as claimed): in fallback mode, when handleSubmit's createRole and refresh
\* have completed, the Store's roles are the roles held before plus exactly one
\* role with an identifier none of them has.
C7_CreateRoleAppendsInFallback ==
    (useFallbackData /\ last.op = "roleCreated")
        => /\ Len(roles) = Len(last.read) + 1
           /\ SubSeq(roles, 1, Len(last.read)) = last.read
           /\ roles[Len(roles)]._id \notin Ids(last.read)

C9_RefreshReplacesOffers ==
    (~useFallbackData /\ last.op = "offersRefreshed")
        => /\ offers = last.read
           /\ Ids(offers) \subseteq Ids(srvOffers)

\* live mode: the re-fetch has returned after an approve changed the Store and
\* the backend finished the generation job
C9_Witness ==
    /\ ~useFallbackData
    /\ last.op = "offersRefreshed"
    /\ Len(offers) = Len(SeedOffers) + 1
    /\ \E id \in Ids(offers) : Status(offers, id) = "Approved"

(***************************************************************************)
(* Bootstrap: the error slot and the order of the requests.                *)
(***************************************************************************)
\* position of a fetch in fetchInitialData
Pos(n) == CHOOSE i \in 1..4 : Names[i] = n

\* the request of fetch n has been sent
Sent(n) == pc = "done" \/ Pos(n) <= Pos(pc)

\* the user message of the first fetch that was rejected
RECURSIVE FirstCaptured(_)
FirstCaptured(i) ==
    IF i > 4 THEN Null
    ELSE IF fetched[Names[i]].kind = "failed" THEN Interceptor(fetched[Names[i]].err)
    ELSE FirstCaptured(i + 1)

\* C11 (as claimed): after a bootstrap in which all four fetches were rejected,
\* the error slot holds the user message of the first rejection; the demo-mode
\* notice is in the slot only when no fetch was rejected.
C11_SpecificMessageKept ==
    /\ (BootDone /\ \A n \in NameSet : fetched[n].kind = "failed") => error = FirstCaptured(1)
    /\ (BootDone /\ error = DemoModeMessage) => FirstCaptured(1) = Null

\* C13 (as claimed): no fetch settles while the request of another fetch has
\* not been sent, so that all four requests are outstanding together.
C13_AllRequestsSentTogether ==
    \A n \in NameSet : \A m \in NameSet : fetched[n].kind # "pending" => Sent(m)

(***************************************************************************)
(* The coordinator operations of the Store.                                *)
(***************************************************************************)
\* C12: loading is true exactly until fetchInitialData has finished, on every
\* outcome of bootstrap, and no refresh, approve, update or workflow step of
\* either mode sets it again.
C12_LoadingOnlyDuringBootstrap ==
    /\ loading <=> ~BootDone
    /\ last.op \notin {"none", "fetch"} => ~loading

\* live mode: a refresh has replaced the candidates after bootstrap, loading is false
C12_Witness ==
    /\ ~useFallbackData /\ ~loading /\ BootDone
    /\ last.op = "candidatesRefreshed"
    /\ nops = MaxOps

\* the request of task i has been answered with success / with a failure
Succeeded(i, ops) ==
    pending[i].op \in ops /\ pending[i].stage = "answered" /\ pending[i].ok
Failed(i, ops) ==
    pending[i].op \in ops /\ pending[i].stage = "answered" /\ ~pending[i].ok

NoRequestInFlight == \A i \in 1..Len(pending) : pending[i].stage = "timer"

\* C15: in fallback mode updateOffer(id, patch) sends no request; the Store's
\* offers are the offers before the call with the package of the offer whose
\* _id is id replaced by the patch's and its status Modified, whatever status
\* the patch carries; every other offer and collection is unchanged.
C15_FallbackUpdateMerges ==
    /\ [](useFallbackData => NoRequestInFlight)
    /\ [][(useFallbackData /\ nops' = nops + 1 /\ last'.op = "updated")
             => /\ offers' = [j \in 1..Len(offers) |->
                                 IF offers[j]._id = last'.id
                                 THEN [offers[j] EXCEPT !.offer = last'.data[1].offer,
                                                        !.status = "Modified"]
                                 ELSE offers[j]]
                /\ UNCHANGED <<candidates, roles, matches, pending>>]_vars

\* fallback mode: an update whose patch says Approved has been applied to mock1
\* while a simulated offer is in the collection too
C15_Witness ==
    /\ useFallbackData
    /\ last.op = "updated"
    /\ last.data[1].status = "Approved"
    /\ Status(offers, last.id) = "Modified"
    /\ Len(offers) = 2
    /\ pending = <<>>

\* C16: in live mode, when the approve call of approveOffer(id) has succeeded
\* and its continuation has run, the offer is Approved in the Store whatever
\* body the call returned; no step that starts a call, and no step of the
\* backend, writes the Store.
C16_LiveApproveAfterResolve ==
    /\ []((~useFallbackData /\ last.op = "approved") => Status(offers, last.id) = "Approved")
    /\ [][(~useFallbackData /\ pending' # pending
              /\ ~(\E i \in 1..Len(pending) : pending[i].stage = "answered" /\ pending' = RemoveAt(pending, i)))
             => UNCHANGED storeVars]_vars

\* live mode: an approve call that returned no usable body has completed on an
\* offer that was awaiting approval
C16_Witness ==
    /\ ~useFallbackData
    /\ last.op = "approved"
    /\ last.data = <<>>
    /\ Status(last.read, last.id) = "Pending Approval"
    /\ Status(offers, last.id) = "Approved"

CoordinatorCalls ==
    {"refreshCandidates", "refreshRoles", "refreshMatches", "refreshOffers", "approve", "update"}
Workflows == {"upload", "process", "generate"}
Refetches == {"refreshCandidates", "refreshMatches", "refreshOffers"}

\* the text each function passes to setError when the error carries no message
DefaultMessage(op) ==
    CASE op = "refreshCandidates" -> "Error refreshing candidates"
      [] op = "refreshRoles" -> "Error refreshing roles"
      [] op = "refreshMatches" -> "Error refreshing matches"
      [] op = "refreshOffers" -> "Error refreshing offers"
      [] op = "approve" -> "Error approving offer"
      [] op = "update" -> "Error updating offer"
      [] op = "upload" -> "Error uploading candidates"
      [] op = "process" -> "Error running matching process"
      [] op = "generate" -> "Error generating offers"

\* C17: in live mode, when the gateway call of refreshCandidates, refreshRoles,
\* refreshMatches, refreshOffers, approveOffer or updateOffer has failed and the
\* function's catch runs, the four collections stay as they are, error becomes
\* the gateway's user message (the function's default text when the message is
\* empty), and the function throws.
C17_FailedCallLeavesCollections ==
    [][\A i \in 1..Len(pending) :
          (Failed(i, CoordinatorCalls) /\ pending' = RemoveAt(pending, i))
             => /\ UNCHANGED <<candidates, roles, matches, offers, loading, useFallbackData>>
                /\ error' = OrText(Interceptor(pending[i].err), DefaultMessage(pending[i].op))
                /\ last'.threw]_vars

\* live mode: a refreshMatches call has failed after an approve changed the offers
C17_Witness ==
    /\ ~useFallbackData
    /\ last.op = "refreshMatchesFailed" /\ last.threw
    /\ error = Interceptor(NoResponse("ERR_NETWORK"))
    /\ offers # SeedOffers
    /\ matches = SeedMatches

\* the collection a refresh function sets
Own(op) ==
    CASE op = "refreshCandidates" -> "candidates"
      [] op = "refreshRoles" -> "roles"
      [] op = "refreshMatches" -> "matches"
      [] op = "refreshOffers" -> "offers"

\* C18: in fallback mode a refresh<Entity>() sends no request, returns
\* mockData's collection and leaves the whole Store unchanged; in live mode,
\* when the list() call of a refresh has succeeded and its continuation runs,
\* its own collection becomes the list() result and nothing else of the Store
\* changes.
C18_RefreshFrame ==
    /\ [](useFallbackData => NoRequestInFlight)
    /\ [][(useFallbackData /\ nops' = nops + 1 /\ last'.op = "refreshReturned")
             => /\ UNCHANGED <<storeVars, pending>>
                /\ last'.read = mockData[last'.id]]_vars
    /\ [][\A i \in 1..Len(pending) :
             (Succeeded(i, CoordinatorCalls \ {"approve", "update"}) /\ pending' = RemoveAt(pending, i))
                => /\ \A n \in NameSet :
                         Store(n)' = IF n = Own(pending[i].op) THEN pending[i].resp ELSE Store(n)
                   /\ UNCHANGED <<loading, error, useFallbackData>>]_vars

\* live mode: refreshCandidates has replaced the candidates by a list that holds
\* an uploaded candidate
C18_Witness ==
    /\ ~useFallbackData
    /\ last.op = "candidatesRefreshed"
    /\ candidates = srvCandidates
    /\ Len(candidates) = Len(SeedCandidates) + 1
    /\ matches = SeedMatches /\ offers = SeedOffers

\* number of tasks of p that workflow w began and whose op and stage are in ops and stages
Count(p, w, ops, stages) ==
    Cardinality({k \in 1..Len(p) : p[k].from = w /\ p[k].op \in ops /\ p[k].stage \in stages})
CountFailed(p, w) ==
    Cardinality({k \in 1..Len(p) : p[k].op = w /\ p[k].stage = "answered" /\ ~p[k].ok})
CountAccepted(p, w) ==
    Cardinality({k \in 1..Len(p) : p[k].op = w /\ p[k].stage = "answered" /\ p[k].ok})
AllStages == {"sent", "answered", "timer"}

\* C19: when the action call of uploadCandidates, runMatching or generateOffers
\* has failed and the catch runs, no timer is set and no request sent, the four
\* collections are unchanged, error holds the message and the function
\* throws; afterwards, and in every state after bootstrap, each of the three
\* triggers can be started again (as long as the run has operations left).
C19_FailedTriggerBackToIdle ==
    /\ [][\A w \in Workflows :
             CountFailed(pending', w) < CountFailed(pending, w)
                => /\ Len(pending') = Len(pending) - 1
                   /\ Count(pending', w, Refetches, AllStages) = Count(pending, w, Refetches, AllStages)
                   /\ UNCHANGED <<candidates, roles, matches, offers>>
                   /\ error' = Interceptor(NoResponse("ERR_NETWORK"))
                   /\ last'.threw]_vars
    /\ []((BootDone /\ nops < MaxOps)
             => ENABLED uploadCandidates /\ ENABLED runMatching /\ ENABLED generateOffers)

\* live mode: a runMatching call has failed, nothing is scheduled and the
\* trigger can be started again
C19_Witness ==
    /\ ~useFallbackData
    /\ last.op = "processFailed" /\ last.threw
    /\ pending = <<>>
    /\ matches = SeedMatches
    /\ error # Null
    /\ nops < MaxOps

\* the refresh function of the collection a workflow affects
OwnRefetch(w) ==
    CASE w = "upload" -> {"refreshCandidates"}
      [] w = "process" -> {"refreshMatches"}
      [] w = "generate" -> {"refreshOffers"}

\* C20: in live mode, when a trigger's action call has succeeded, its
\* continuation sets exactly one timer, for the refresh of the workflow's own
\* collection; a timer leaves only by running, which sends one list()
\* request; and when that request has settled, with a list or with a failure,
\* nothing of the workflow remains: no second timer, no retry.
C20_OneRefetchPerTrigger ==
    [][\A w \in Workflows :
          /\ CountAccepted(pending', w) < CountAccepted(pending, w)
                => /\ Len(pending') = Len(pending)
                   /\ Count(pending', w, OwnRefetch(w), {"timer"}) = Count(pending, w, OwnRefetch(w), {"timer"}) + 1
          /\ Count(pending', w, Refetches, {"timer"}) < Count(pending, w, Refetches, {"timer"})
                => /\ Len(pending') = Len(pending)
                   /\ Count(pending', w, OwnRefetch(w), {"sent"}) = Count(pending, w, OwnRefetch(w), {"sent"}) + 1
          /\ Count(pending', w, Refetches, {"answered"}) < Count(pending, w, Refetches, {"answered"})
                => /\ Len(pending') = Len(pending) - 1
                   /\ Count(pending', w, Refetches, AllStages) = Count(pending, w, Refetches, AllStages) - 1
          /\ Count(pending', w, Refetches \ OwnRefetch(w), AllStages) = 0]_vars

\* live mode: the re-fetch an upload scheduled has failed and nothing of the
\* workflow remains; a runMatching was accepted and its timer is set
C20_Witness ==
    /\ ~useFallbackData
    /\ last.op = "refreshCandidatesFailed" /\ last.id = ""
    /\ Len(pending) = 1
    /\ pending[1].from = "process" /\ pending[1].op = "refreshMatches" /\ pending[1].stage = "timer"
    /\ candidates = SeedCandidates

(***************************************************************************)
(* Concurrent continuations, the gateway's classes, the outer catch.       *)
(***************************************************************************)
\* C21: in live mode, when two delayed re-fetches of the offers are outstanding
\* together and the response of one of them resolves, the Store's offers
\* become exactly that response, whatever the Store held and whatever the
\* other re-fetch returned or will return: the one that resolves last stays.
C21_LastResolvedRefetchWins ==
    [][\A i \in 1..Len(pending) : \A j \in 1..Len(pending) :
          (/\ i # j
           /\ pending[j].op = "refreshOffers" /\ pending[j].from = "generate"
           /\ pending[i].from = "generate"
           /\ Succeeded(i, {"refreshOffers"})
           /\ pending' = RemoveAt(pending, i))
             => offers' = pending[i].resp]_vars

\* live mode: both re-fetches have resolved, the one that resolved last was
\* answered before the backend finished a job, and the Store holds its list,
\* one offer short of the backend's
C21_Witness ==
    /\ ~useFallbackData
    /\ last.op = "offersRefreshed"
    /\ pending = <<>> /\ nops = 2
    /\ error = Null
    /\ offers = last.read
    /\ Len(srvOffers) = Len(SeedOffers) + 2
    /\ Len(offers) < Len(srvOffers)

\* C26 (as claimed): in live mode, when the continuation of a successful
\* approveOffer or updateOffer on one offer runs, every other offer of the
\* Store stays as the Store holds it, so that an earlier call's change to
\* another offer is kept.
C26_ConcurrentChangesKept ==
    [][\A i \in 1..Len(pending) :
          (Succeeded(i, {"approve", "update"}) /\ pending' = RemoveAt(pending, i))
             => \A id \in Ids(offers) \ {pending[i].id} :
                   id \in Ids(offers') /\ Find(offers', id) = Find(offers, id)]_vars

\* the class of a rejected error, as its user message tells it
Category(msg) ==
    IF msg = "Request timed out. Please try again." THEN "NetworkTimeout"
    ELSE IF StartsWith(msg, "Network error.") THEN "NetworkUnreachable"
    ELSE IF msg = "An unexpected error occurred" THEN "Unknown"
    ELSE "Http"

\* C24: a rejected error without a response is classified NetworkTimeout when
\* its code is ECONNABORTED and NetworkUnreachable for any other code; an error
\* with neither response nor request is classified Unknown; in each case the
\* user message is not empty.
C24_NoResponseClasses ==
    (gw.userMessage # Null /\ ~gw.err.response)
        => /\ gw.userMessage # ""
           /\ Category(gw.userMessage) =
                 IF ~gw.err.request THEN "Unknown"
                 ELSE IF gw.err.code = "ECONNABORTED" THEN "NetworkTimeout"
                 ELSE "NetworkUnreachable"

\* the interceptor has rejected a request that timed out
C24_Witness ==
    /\ ~gw.err.response /\ gw.err.request /\ gw.err.code = "ECONNABORTED"
    /\ gw.userMessage = "Request timed out. Please try again."

\* evaluating hasData reads .length of a null body: no earlier operand of the
\* || chain is true and one body is null
ThrowsOutsideGuards ==
    \E i \in 1..4 :
        /\ fetched[Names[i]].kind = "null"
        /\ \A j \in 1..(i - 1) : fetched[Names[j]].kind # "null" /\ fetched[Names[j]].data = <<>>

\* C28: when bootstrap has ended through its outer catch, useFallbackData is
\* true, the four collections are mockData's, error is the load-failed text,
\* whatever message a per-fetch catch had captured, and loading is false.
C28_OuterCatchFallsBack ==
    (BootDone /\ ThrowsOutsideGuards)
        => /\ useFallbackData
           /\ \A n \in NameSet : Store(n) = mockData[n]
           /\ nullCols = {}
           /\ error = LoadFailedMessage
           /\ ~loading

\* bootstrap has ended through the outer catch after the candidates fetch was
\* rejected and the roles fetch resolved with a null body
C28_Witness ==
    /\ BootDone
    /\ fetched["candidates"].kind = "failed"
    /\ fetched["roles"].kind = "null"
    /\ useFallbackData /\ error = LoadFailedMessage /\ ~loading

(***************************************************************************)
(* The Store over whole runs: unhandled failures, simulated additions,     *)
(* useFallbackData, identifiers.                                           *)
(***************************************************************************)
\* the failed function was run by a setTimeout callback, which drops its promise
ThrownInTimer == last.threw /\ last.data # <<>> /\ last.data[1] \in Workflows

\* C23 (as claimed): whenever a coordinator or workflow function has failed,
\* its rejection reached a caller that handles it (it was not raised inside a
\* timer callback) and the application does not show the failure screen.
C23_EveryFailureHandled ==
    last.threw => ~ThrownInTimer /\ Screen # "ErrorScreen"

SimTimers == {"simCandidate", "simMatch", "simOffer"}
Target(op) ==
    CASE op = "simCandidate" -> "candidates"
      [] op = "simMatch" -> "matches"
      [] op = "simOffer" -> "offers"

\* C25 (as claimed): in fallback mode every timer of uploadCandidates,
\* runMatching or generateOffers that fires leaves its collection one entity
\* longer than the Store held it, so that k accepted calls add k entities.
C25_EveryTimerAddsOne ==
    [][\A i \in 1..Len(pending) :
          (/\ pending[i].stage = "timer" /\ pending[i].op \in SimTimers
           /\ pending' = RemoveAt(pending, i))
             => \A n \in NameSet : n = Target(pending[i].op) => Len(Store(n)') = Len(Store(n)) + 1]_vars

\* C29: after bootstrap useFallbackData is what bootstrap set it to (true
\* exactly when no fetch returned data), through every refresh, approve,
\* update, workflow and clearError step; a Store in fallback mode has no
\* request in flight.
C29_FallbackModeSetOnlyByBootstrap ==
    /\ BootDone => (useFallbackData <=> hasData(fetched, 1) # "true")
    /\ ~BootDone => ~useFallbackData
    /\ useFallbackData => NoRequestInFlight

\* fallback mode: the error was cleared and an offer was simulated, no request was sent
C29_Witness ==
    /\ useFallbackData
    /\ error = Null
    /\ Len(offers) = Len(mockData.offers) + 1
    /\ pending = <<>> /\ nops = MaxOps

UniqueIds(col) == \A i \in 1..Len(col) : \A j \in 1..Len(col) : i # j => col[i]._id # col[j]._id

\* C30: in fallback mode, in every state after bootstrap, no two candidates,
\* roles, matches or offers of the Store share an _id, and the candidate_id
\* and role_id of every match and offer are the _id of a candidate and of a
\* role of the Store.
C30_FallbackIdsUniqueAndResolved ==
    (useFallbackData /\ BootDone)
        => /\ \A n \in NameSet : UniqueIds(Store(n))
           /\ \A i \in 1..Len(matches) :
                 matches[i].candidate_id \in Ids(candidates) /\ matches[i].role_id \in Ids(roles)
           /\ \A i \in 1..Len(offers) :
                 offers[i].candidate_id \in Ids(candidates) /\ offers[i].role_id \in Ids(roles)

\* fallback mode: a simulated offer and a simulated match have been added
C30_Witness ==
    /\ useFallbackData
    /\ Len(offers) = Len(mockData.offers) + 1
    /\ Len(matches) = Len(mockData.matches) + 1
    /\ pending = <<>>

(***************************************************************************)
(* The pages against the Store, and the pages' busy flags.                 *)
(***************************************************************************)
\* Navigation: offers.filter(o => o.status === 'Pending Approval').length, on
\* the offers of the context
pendingOffersCount(col) == Len(SelectSeq(col, LAMBDA o : o.status = "Pending Approval"))

\* C22 (as claimed): once an approve, an edit or an offer generation made from
\* the Offer Recommendations page has completed, the Store's offers are the
\* offers the page displays and Navigation's pending count is the page's;
\* once a matching run made from the Role Matching page has completed, the
\* Store's matches are the matches the page displays.
C22_StoreEqualsPage ==
    /\ last.op \in {"pageApproved", "pageUpdated", "pageOffersPolled"}
          => /\ offers = page.offers
             /\ pendingOffersCount(offers) = pendingOffersCount(page.offers)
    /\ last.op = "pageMatchesPolled" => matches = page.matches

\* the requests and the timer begun by a page function and still outstanding
Outstanding(from) == {i \in 1..Len(pending) : pending[i].from = from}

\* the delayed re-fetch of task i has failed and its callback runs
PollFails(i) ==
    /\ pending[i].from \in {"handleGenerateOffers", "runMatchingProcess"}
    /\ pending[i].op \in {"refreshOffers", "refreshMatches"}
    /\ pending[i].stage = "answered" /\ ~pending[i].ok
    /\ pending' = RemoveAt(pending, i)

\* the trigger call of task i has failed and the handler's catch runs
TriggerFails(i) ==
    /\ pending[i].from \in {"handleGenerateOffers", "runMatchingProcess"}
    /\ pending[i].op \in {"generate", "process"}
    /\ pending[i].stage = "answered" /\ ~pending[i].ok
    /\ pending' = RemoveAt(pending, i)

\* C27: generating and processing, once set, are eventually cleared; each is
\* set exactly while the one trigger that set it has its request, its timer
\* or its re-fetch outstanding, so no second trigger starts meanwhile; the
\* step that handles a failed trigger call clears the flag at once; the step
\* that handles a failed re-fetch clears it and leaves the page's offers and
\* matches as they were.
C27_BusyFlagsCleared ==
    /\ page.generating ~> ~page.generating
    /\ page.processing ~> ~page.processing
    /\ [](/\ page.generating <=> Outstanding("handleGenerateOffers") # {}
          /\ page.processing <=> Outstanding("runMatchingProcess") # {}
          /\ Cardinality(Outstanding("handleGenerateOffers")) <= 1
          /\ Cardinality(Outstanding("runMatchingProcess")) <= 1)
    /\ [][\A i \in 1..Len(pending) :
             /\ TriggerFails(i) => ~page'.generating /\ ~page'.processing
             /\ PollFails(i) => /\ ~page'.generating /\ ~page'.processing
                                /\ page'.offers = page.offers
                                /\ page'.matches = page.matches]_vars

\* the re-fetch after an accepted generation failed: the flag is cleared and
\* the page still lists what its first fetch returned
C27_Witness ==
    /\ last.op = "pagePollFailed"
    /\ page.at = "offers"
    /\ ~page.generating
    /\ page.offers = SeedOffers
    /\ page.notification = "success"

====
